---- MODULE Spec2Model ----
(***************************************************************************)
(* Model of the SEO blog article generator (src/utils.py, src/app.py).     *)
(*                                                                         *)
(* Texts are sequences of characters; a character is a one-element string. *)
(* Characters outside ASCII carry a romanised name:                        *)
(*   "moku" "ji"          the two characters of the TOC heading word       *)
(*   "maru"               the ideographic full stop                        *)
(*   "zenkan" "zengi"     full-width exclamation and question marks        *)
(*   "hou" "hoh" ...      the characters of the persuasive words           *)
(*   "ka"                 any other kana/kanji character                   *)
(*   "backtick"           the backtick                                     *)
(***************************************************************************)
EXTENDS Integers, Sequences, FiniteSets, TLC

VARIABLES text, keyword, title, keyword_count, total_words, op, result, prev,
          session, pc

vars == <<text, keyword, title, keyword_count, total_words, op, result, prev,
          session, pc>>

\* value of an argument or result that the operation at hand does not use
NoValue == "none"

\* op is the position of the call at hand: "<operation>_pending" before it has
\* run on the arguments, "<operation>" once result holds what it returned.
\* For the wizard of src/app.py, session is st.session_state, pc tells whether
\* the script is about to run from the top ("rerun") or the page waits for the
\* user ("idle"), op is the last button handler that ran, prev the session that
\* handler started from and result what the generation request gave it.

-----------------------------------------------------------------------------
(* Bounds of the input families                                            *)

MaxLines == 3

-----------------------------------------------------------------------------
(* Characters and string primitives                                        *)

NL == "\n"
SP == " "
TAB == "\t"
HASH == "#"

\* characters matched by \s and removed by str.strip()
Whitespace == {SP, NL, TAB}

IsSpace(c) == c \in Whitespace

\* str.lower() on the characters of the model's alphabet
UpperCase == {"A", "B", "S", "E", "O", "T"}

LowerChar(c) ==
    CASE c = "A" -> "a"
      [] c = "B" -> "b"
      [] c = "S" -> "s"
      [] c = "E" -> "e"
      [] c = "O" -> "o"
      [] c = "T" -> "t"
      [] OTHER -> c

Lower(s) == [i \in 1..Len(s) |-> LowerChar(s[i])]

Rep(c, n) == [i \in 1..n |-> c]

\* s[i..] starts with sub
MatchAt(s, sub, i) ==
    /\ i >= 1
    /\ i + Len(sub) - 1 <= Len(s)
    /\ \A k \in 1..Len(sub) : s[i + k - 1] = sub[k]

\* Python's "sub in s"
Contains(s, sub) == \E i \in 1..(Len(s) + 1) : MatchAt(s, sub, i)

\* str.find(sub, from): first index >= from where sub occurs, 0 when none
FindFrom(s, sub, from) ==
    IF \E i \in from..(Len(s) + 1) : MatchAt(s, sub, i)
    THEN CHOOSE i \in from..(Len(s) + 1) :
            /\ MatchAt(s, sub, i)
            /\ \A j \in from..(i - 1) : ~MatchAt(s, sub, j)
    ELSE 0

\* str.replace(c, ''), for a single character c
RemoveChar(s, c) == SelectSeq(s, LAMBDA x : x # c)

\* str.replace(a, b), for single characters
ReplaceChar(s, a, b) == [i \in 1..Len(s) |-> IF s[i] = a THEN b ELSE s[i]]

\* str.strip()
Strip(s) ==
    IF \A i \in 1..Len(s) : IsSpace(s[i]) THEN <<>>
    ELSE LET a == CHOOSE i \in 1..Len(s) :
                     ~IsSpace(s[i]) /\ \A k \in 1..(i - 1) : IsSpace(s[k])
             b == CHOOSE i \in 1..Len(s) :
                     ~IsSpace(s[i]) /\ \A k \in (i + 1)..Len(s) : IsSpace(s[k])
         IN  SubSeq(s, a, b)

\* s.split('\n')
RECURSIVE SplitLinesFrom(_, _)
SplitLinesFrom(s, from) ==
    LET i == FindFrom(s, <<NL>>, from)
    IN  IF i = 0 THEN <<SubSeq(s, from, Len(s))>>
        ELSE <<SubSeq(s, from, i - 1)>> \o SplitLinesFrom(s, i + 1)

SplitLines(s) == SplitLinesFrom(s, 1)

\* sep.join(parts)
RECURSIVE Join(_, _)
Join(parts, sep) ==
    IF parts = <<>> THEN <<>>
    ELSE IF Len(parts) = 1 THEN parts[1]
    ELSE parts[1] \o sep \o Join(Tail(parts), sep)

\* all sequences over S of length 0..n
SeqsUpTo(S, n) == UNION {[1..k -> S] : k \in 0..n}

-----------------------------------------------------------------------------
(* MarkdownProcessor.add_toc_if_needed                                     *)

\* the two literal forms of the TOC heading
TocMarkerSpaced == <<HASH, HASH, SP, "moku", "ji">>
TocMarkerTight == <<HASH, HASH, "moku", "ji">>

HasTocMarker(md) == Contains(md, TocMarkerSpaced) \/ Contains(md, TocMarkerTight)

\* number of leading '#' of a line
LeadingHashes(line) ==
    IF \A i \in 1..Len(line) : line[i] = HASH THEN Len(line)
    ELSE (CHOOSE i \in 1..Len(line) :
            line[i] # HASH /\ \A k \in 1..(i - 1) : line[k] = HASH) - 1

\* length of the whitespace run of a line that starts at index from
SpaceRun(line, from) ==
    IF \A i \in from..Len(line) : IsSpace(line[i]) THEN Len(line) - from + 1
    ELSE (CHOOSE i \in from..Len(line) :
            ~IsSpace(line[i]) /\ \A k \in from..(i - 1) : IsSpace(line[k])) - from

\* re.match(r'^(#{1,3})\s+(.+)$', line): the greedy #{1,3} can only stop at the
\* end of the run of '#' (a '#' is no \s), \s+ takes the whole whitespace run and
\* gives its last character back to (.+) when nothing else is left for it.
HeadingMatch(line) ==
    LET n == LeadingHashes(line)
        w == SpaceRun(line, n + 1)
        rest == SubSeq(line, n + w + 1, Len(line))
    IN  IF n < 1 \/ n > 3 \/ w < 1 THEN [matched |-> FALSE]
        ELSE IF rest # <<>> THEN [matched |-> TRUE, level |-> n, group2 |-> rest]
        ELSE IF w >= 2 THEN [matched |-> TRUE, level |-> n, group2 |-> <<line[Len(line)]>>]
        ELSE [matched |-> FALSE]

\* the loop without the test that leaves level 1 out
RECURSIVE collect_headings_with_h1(_)
collect_headings_with_h1(lines) ==
    IF lines = <<>> THEN <<>>
    ELSE LET m == HeadingMatch(Head(lines))
         IN  (IF m.matched
              THEN <<[level |-> m.level, text |-> Strip(m.group2)]>>
              ELSE <<>>) \o collect_headings_with_h1(Tail(lines))

\* the (level, text) pairs collected by the loop over the lines
RECURSIVE CollectHeadings(_)
CollectHeadings(lines) ==
    IF lines = <<>> THEN <<>>
    ELSE LET m == HeadingMatch(Head(lines))
         IN  (IF m.matched /\ m.level > 1
              THEN <<[level |-> m.level, text |-> Strip(m.group2)]>>
              ELSE <<>>) \o CollectHeadings(Tail(lines))

TocHeadings(md) == CollectHeadings(SplitLines(md))

LinkText(htext) == RemoveChar(RemoveChar(htext, "["), "]")

Anchor(htext) == ReplaceChar(Lower(LinkText(htext)), SP, "-")

\* f"{indent}- [{link_text}](#{anchor})"
TocEntry(h) ==
    Rep(SP, 2 * (h.level - 2)) \o <<"-", SP, "[">> \o LinkText(h.text)
        \o <<"]", "(", HASH>> \o Anchor(h.text) \o <<")">>

\* the list toc: the heading, an empty line, the entries, an empty line
TocList(headings) ==
    <<TocMarkerSpaced, << >> >> \o [i \in 1..Len(headings) |-> TocEntry(headings[i])] \o << << >> >>

\* the split at the first single newline
split_first_newline(md) ==
    LET i == FindFrom(md, <<NL>>, 1)
    IN  IF i = 0 THEN <<md>>
        ELSE <<SubSeq(md, 1, i - 1), SubSeq(md, i + 1, Len(md))>>

\* markdown_text.split('\n\n', 1)
SplitFirstBlank(md) ==
    LET i == FindFrom(md, <<NL, NL>>, 1)
    IN  IF i = 0 THEN <<md>>
        ELSE <<SubSeq(md, 1, i - 1), SubSeq(md, i + 2, Len(md))>>

\* the guard that knows only the form without the space
guard_only_tight_marker(md) == Contains(md, TocMarkerTight)

AlreadyHasToc(md) == HasTocMarker(md)

\* the builder without the return for an empty list of headings
add_toc_without_empty_check(md) ==
    IF AlreadyHasToc(md) THEN md
    ELSE LET toc == TocList(TocHeadings(md))
             parts == SplitFirstBlank(md)
         IN  IF Len(parts) > 1
             THEN parts[1] \o <<NL, NL>> \o Join(toc, <<NL>>) \o <<NL, NL>> \o parts[2]
             ELSE md \o <<NL, NL>> \o Join(toc, <<NL>>)

add_toc_if_needed(md) ==
    IF AlreadyHasToc(md) THEN md
    ELSE LET headings == TocHeadings(md)
         IN  IF headings = <<>> THEN md
             ELSE LET toc == TocList(headings)
                      parts == SplitFirstBlank(md)
                  IN  IF Len(parts) > 1
                      THEN parts[1] \o <<NL, NL>> \o Join(toc, <<NL>>) \o <<NL, NL>> \o parts[2]
                      ELSE md \o <<NL, NL>> \o Join(toc, <<NL>>)

-----------------------------------------------------------------------------
(* Markdown documents given to the TOC builder                             *)

TocLineTemplates ==
    { <<>>,
      <<HASH, SP, "T">>,
      <<HASH, HASH, SP, "a">>,
      <<HASH, HASH, SP>>,
      <<HASH, HASH, SP, SP>>,
      <<HASH, HASH, TAB, "b">>,
      <<HASH, HASH, HASH, SP, "[", "A", "]", SP, "b">>,
      <<HASH, HASH, HASH, HASH, SP, "d">>,
      <<HASH, HASH, SP, "moku", "ji">>,
      <<HASH, HASH, "moku", "ji">>,
      <<"a">> }

TocDocuments == {Join(ls, <<NL>>) : ls \in SeqsUpTo(TocLineTemplates, MaxLines)}

InitToc ==
    /\ text \in TocDocuments
    /\ keyword = NoValue
    /\ title = NoValue
    /\ keyword_count = NoValue
    /\ total_words = NoValue
    /\ op = "toc_pending"
    /\ result = NoValue
    /\ prev = NoValue
    /\ session = NoValue
    /\ pc = NoValue

\* the first call on a document
AddToc ==
    /\ op = "toc_pending"
    /\ result' = add_toc_if_needed(text)
    /\ prev' = NoValue
    /\ op' = "toc"
    /\ UNCHANGED <<text, keyword, title, keyword_count, total_words, session, pc>>

\* a further call on the document the first call returned
AddTocAgain ==
    /\ op = "toc"
    /\ prev' = result
    /\ result' = add_toc_if_needed(result)
    /\ op' = "toc_again"
    /\ UNCHANGED <<text, keyword, title, keyword_count, total_words, session, pc>>

NextToc == AddToc \/ AddTocAgain

SpecToc == InitToc /\ [][NextToc]_vars

-----------------------------------------------------------------------------
(* SEOAnalyzer.analyze_headings                                            *)

\* start of the text or just after a newline: where ^ matches under re.MULTILINE
AtLineStart(s, i) == i = 1 \/ s[i - 1] = NL

\* the pattern without its closing space: any line with at least level '#'
heading_pattern_without_space(level) == Rep(HASH, level)

\* the pattern '^#...# ' of a level: level times '#', then one space
HeadingPattern(level) == Rep(HASH, level) \o <<SP>>

\* len(re.findall(pattern, text, re.MULTILINE)): the matches start at line starts
\* and hold no newline, so no two of them overlap
CountLineStartMatches(s, pattern) ==
    Cardinality({i \in 1..Len(s) : AtLineStart(s, i) /\ MatchAt(s, pattern, i)})

HeadingCount(s, level) == CountLineStartMatches(s, HeadingPattern(level))

\* the verdict without the test for more than one h1
good_structure_ignores_too_many(has_h1, has_h2, too_many_h1) == has_h1 /\ has_h2

IsGoodStructure(has_h1, has_h2, too_many_h1) == has_h1 /\ has_h2 /\ ~too_many_h1

analyze_headings(s) ==
    LET counts == [level \in 1..6 |-> HeadingCount(s, level)]
        has_h1 == counts[1] > 0
        has_h2 == counts[2] > 0
        too_many_h1 == counts[1] > 1
    IN  [counts |-> counts,
         has_h1 |-> has_h1,
         has_h2 |-> has_h2,
         too_many_h1 |-> too_many_h1,
         is_good_structure |-> IsGoodStructure(has_h1, has_h2, too_many_h1)]

HeadingLineTemplates ==
    { <<>>,
      <<HASH, SP, "T">>,
      <<HASH, HASH, SP, "a">>,
      <<HASH, HASH, HASH, SP, "b">>,
      <<HASH, HASH, HASH, HASH, SP, "T", "i", "t", "l", "e">>,
      <<HASH, HASH, HASH, HASH, HASH, SP, "e">>,
      <<HASH, HASH, HASH, HASH, HASH, HASH, SP, "f">>,
      <<HASH, HASH, HASH, HASH, HASH, HASH, HASH, SP, "g">>,
      <<SP, HASH, SP, "T">>,
      <<HASH, HASH, "a">>,
      <<HASH, TAB, "T">>,
      <<"a", SP, HASH, SP, "b">> }

HeadingDocuments == {Join(ls, <<NL>>) : ls \in SeqsUpTo(HeadingLineTemplates, MaxLines)}

InitHeadings ==
    /\ text \in HeadingDocuments
    /\ keyword = NoValue
    /\ title = NoValue
    /\ keyword_count = NoValue
    /\ total_words = NoValue
    /\ op = "headings_pending"
    /\ result = NoValue
    /\ prev = NoValue
    /\ session = NoValue
    /\ pc = NoValue

AnalyzeHeadings ==
    /\ op = "headings_pending"
    /\ result' = analyze_headings(text)
    /\ op' = "headings"
    /\ UNCHANGED <<text, keyword, title, keyword_count, total_words, prev, session, pc>>

NextHeadings == AnalyzeHeadings

SpecHeadings == InitHeadings /\ [][NextHeadings]_vars

-----------------------------------------------------------------------------
(* SEOAnalyzer.analyze_keyword_density                                     *)

\* the characters removed by the re.sub of the Markdown markers: hash, asterisk,
\* underscore, hyphen, brackets, parentheses and the backtick
MarkdownChars == {HASH, "*", "_", "-", "[", "]", "(", ")", "backtick"}

CleanText(s) == SelectSeq(s, LAMBDA c : c \notin MarkdownChars)

\* the sentence terminators: ideographic full stop, '.', '!', '?', and the
\* full-width exclamation and question marks
Terminators == {"maru", ".", "!", "?", "zenkan", "zengi"}

\* \w: letters, digits and '_' (kana and kanji are letters)
IsWordChar(c) == c \notin Whitespace \union Terminators \union (MarkdownChars \ {"_"})

\* len(re.findall(r'\w+', s)): the number of maximal runs of word characters
CountWords(s) ==
    Cardinality({i \in 1..Len(s) : IsWordChar(s[i]) /\ (i = 1 \/ ~IsWordChar(s[i - 1]))})

\* str.count(sub): occurrences found left to right without overlap; the empty
\* string occurs between any two characters and at both ends
RECURSIVE CountFrom(_, _, _)
CountFrom(s, sub, from) ==
    LET i == FindFrom(s, sub, from)
    IN  IF i = 0 THEN 0 ELSE 1 + CountFrom(s, sub, i + Len(sub))

StrCount(s, sub) == IF sub = <<>> THEN Len(s) + 1 ELSE CountFrom(s, sub, 1)

\* round(count / words * 100, 2) in hundredths of a percent: the quotient
\* count * 10000 / words rounded to the nearest integer, a tie to the even one
\* (the float the code rounds is the exact quotient at every tie that
\* keyword_count < 23 can produce)
\* the density with a word count of zero divided as if it were one
rounded_density_dividing_by_at_least_one(count, words) ==
    LET w == IF words > 0 THEN words ELSE 1
        q == (count * 10000) \div w
        r == (count * 10000) % w
    IN  IF 2 * r < w THEN q
        ELSE IF 2 * r > w THEN q + 1
        ELSE IF q % 2 = 0 THEN q ELSE q + 1

RoundedDensity(count, words) ==
    IF words > 0
    THEN LET q == (count * 10000) \div words
             r == (count * 10000) % words
         IN  IF 2 * r < words THEN q
             ELSE IF 2 * r > words THEN q + 1
             ELSE IF q % 2 = 0 THEN q ELSE q + 1
    ELSE 0

\* the branch on the unrounded density: density < 0.5, density > 3.0, else
Recommendation(count, words) ==
    IF words > 0
    THEN IF 200 * count < words THEN "too_low"
         ELSE IF 100 * count > 3 * words THEN "too_high"
         ELSE "appropriate"
    ELSE "too_low"

\* lines 285-301: the result built from the two counts; density is in
\* hundredths of a percent
DensityResult(count, words) ==
    [keyword_count |-> count,
     total_words |-> words,
     density |-> RoundedDensity(count, words),
     recommendation |-> Recommendation(count, words)]

analyze_keyword_density(s, kw) ==
    LET clean_text == CleanText(s)
    IN  DensityResult(StrCount(Lower(clean_text), Lower(kw)), CountWords(clean_text))

MaxPieces == 3

KeywordTextPieces ==
    { <<"s", "e", "o">>,
      <<"S", "E", "O">>,
      <<SP>>,
      <<NL>>,
      <<"!">>,
      <<"ka">>,
      <<HASH, SP>>,
      <<"*", "_">> }

KeywordTexts == {Join(ps, <<>>) : ps \in SeqsUpTo(KeywordTextPieces, MaxPieces)}

Keywords == { <<>>, <<"s", "e", "o">>, <<"S", "E", "O">>, <<"!">>, <<"ka", SP>> }

InitKeyword ==
    /\ text \in KeywordTexts
    /\ keyword \in Keywords
    /\ title = NoValue
    /\ keyword_count = NoValue
    /\ total_words = NoValue
    /\ op = "keyword_density_pending"
    /\ result = NoValue
    /\ prev = NoValue
    /\ session = NoValue
    /\ pc = NoValue

AnalyzeKeywordDensity ==
    /\ op = "keyword_density_pending"
    /\ result' = analyze_keyword_density(text, keyword)
    /\ op' = "keyword_density"
    /\ UNCHANGED <<text, keyword, title, keyword_count, total_words, prev, session, pc>>

NextKeyword == AnalyzeKeywordDensity

SpecKeyword == InitKeyword /\ [][NextKeyword]_vars

\* The density and the recommendation for given counts: the counts a long text
\* produces, which the short texts of KeywordTexts do not reach.
MaxCount == 7
MaxWords == 233

InitDensity ==
    /\ text = NoValue
    /\ keyword = NoValue
    /\ title = NoValue
    /\ keyword_count \in 0..MaxCount
    /\ total_words \in 0..MaxWords
    /\ op = "density_pending"
    /\ result = NoValue
    /\ prev = NoValue
    /\ session = NoValue
    /\ pc = NoValue

ComputeDensity ==
    /\ op = "density_pending"
    /\ result' = DensityResult(keyword_count, total_words)
    /\ op' = "density"
    /\ UNCHANGED <<text, keyword, title, keyword_count, total_words, prev, session, pc>>

NextDensity == ComputeDensity

SpecDensity == InitDensity /\ [][NextDensity]_vars

-----------------------------------------------------------------------------
(* SEOAnalyzer.analyze_readability                                         *)

\* the leftmost match of \n\s*\n at or after from: it starts at the first newline
\* that is followed, over whitespace only, by another newline, and the greedy \s*
\* carries it to the last newline of that whitespace run
ParagraphBreakFrom(s, from) ==
    LET Reaches(i, j) == s[j] = NL /\ \A k \in (i + 1)..(j - 1) : IsSpace(s[k])
        Starts(i) == s[i] = NL /\ \E j \in (i + 1)..Len(s) : Reaches(i, j)
    IN  IF \E i \in from..Len(s) : Starts(i)
        THEN LET a == CHOOSE i \in from..Len(s) :
                          Starts(i) /\ \A k \in from..(i - 1) : ~Starts(k)
                 b == CHOOSE j \in (a + 1)..Len(s) :
                          Reaches(a, j) /\ \A k \in (j + 1)..Len(s) : ~Reaches(a, k)
             IN  [found |-> TRUE, first |-> a, last |-> b]
        ELSE [found |-> FALSE]

\* the leftmost match of [terminators]+ at or after from: a maximal run
SentenceBreakFrom(s, from) ==
    LET IsTerm(i) == s[i] \in Terminators
    IN  IF \E i \in from..Len(s) : IsTerm(i)
        THEN LET a == CHOOSE i \in from..Len(s) :
                          IsTerm(i) /\ \A k \in from..(i - 1) : ~IsTerm(k)
                 b == CHOOSE j \in a..Len(s) :
                          /\ \A k \in a..j : IsTerm(k)
                          /\ (j = Len(s) \/ ~IsTerm(j + 1))
             IN  [found |-> TRUE, first |-> a, last |-> b]
        ELSE [found |-> FALSE]

\* re.split(r'\n\s*\n', s)
RECURSIVE SplitParagraphsFrom(_, _)
SplitParagraphsFrom(s, from) ==
    LET m == ParagraphBreakFrom(s, from)
    IN  IF m.found
        THEN <<SubSeq(s, from, m.first - 1)>> \o SplitParagraphsFrom(s, m.last + 1)
        ELSE <<SubSeq(s, from, Len(s))>>

\* re.split(r'[...]+', s)
RECURSIVE SplitSentencesFrom(_, _)
SplitSentencesFrom(s, from) ==
    LET m == SentenceBreakFrom(s, from)
    IN  IF m.found
        THEN <<SubSeq(s, from, m.first - 1)>> \o SplitSentencesFrom(s, m.last + 1)
        ELSE <<SubSeq(s, from, Len(s))>>

\* [p.strip() for p in pieces if p.strip()]
StripAndDropEmpty(pieces) ==
    SelectSeq([i \in 1..Len(pieces) |-> Strip(pieces[i])], LAMBDA p : p # <<>>)

RECURSIVE SumLen(_)
SumLen(pieces) == IF pieces = <<>> THEN 0 ELSE Len(Head(pieces)) + SumLen(Tail(pieces))

\* a mean length total / count, kept as the fraction; 0 when there is nothing
Mean(total, count) ==
    IF count > 0 THEN [num |-> total, den |-> count] ELSE [num |-> 0, den |-> 1]

\* mean < n
MeanBelow(mean, n) == mean.num < n * mean.den

\* mean = n
MeanIs(mean, n) == mean.num = n * mean.den

LongParagraphLength == 100
GoodParagraphLength == 120
GoodSentenceLength == 50

\* the verdict without the test of the mean sentence length
good_readability_without_sentences(avg_p, avg_s, long, count) ==
    IF count > 0
    THEN MeanBelow(avg_p, GoodParagraphLength) /\ 10 * long < 3 * count
    ELSE TRUE

\* the conditional expression of lines 375-377: the condition paragraph_count > 0
\* chooses between the whole conjunction and True; long / count < 0.3 is
\* 10 * long < 3 * count
IsGoodReadability(avg_p, avg_s, long, count) ==
    IF count > 0
    THEN /\ MeanBelow(avg_p, GoodParagraphLength)
         /\ MeanBelow(avg_s, GoodSentenceLength)
         /\ 10 * long < 3 * count
    ELSE TRUE

\* the analysis counting a paragraph of exactly 100 characters as long
analyze_readability_long_from_100(s) ==
    LET clean_text == CleanText(s)
        paragraphs == StripAndDropEmpty(SplitParagraphsFrom(clean_text, 1))
        sentences == StripAndDropEmpty(SplitSentencesFrom(clean_text, 1))
        long_paragraphs_count ==
            Len(SelectSeq(paragraphs, LAMBDA p : Len(p) >= LongParagraphLength))
        avg_paragraph_length == Mean(SumLen(paragraphs), Len(paragraphs))
        avg_sentence_length == Mean(SumLen(sentences), Len(sentences))
    IN  [paragraph_count |-> Len(paragraphs),
         sentence_count |-> Len(sentences),
         long_paragraphs_count |-> long_paragraphs_count,
         avg_paragraph_length |-> avg_paragraph_length,
         avg_sentence_length |-> avg_sentence_length,
         is_good_readability |->
             IsGoodReadability(avg_paragraph_length, avg_sentence_length,
                               long_paragraphs_count, Len(paragraphs))]

analyze_readability(s) ==
    LET clean_text == CleanText(s)
        paragraphs == StripAndDropEmpty(SplitParagraphsFrom(clean_text, 1))
        paragraph_count == Len(paragraphs)
        sentences == StripAndDropEmpty(SplitSentencesFrom(clean_text, 1))
        sentence_count == Len(sentences)
        long_paragraphs_count ==
            Len(SelectSeq(paragraphs, LAMBDA p : Len(p) > LongParagraphLength))
        avg_paragraph_length == Mean(SumLen(paragraphs), paragraph_count)
        avg_sentence_length == Mean(SumLen(sentences), sentence_count)
    IN  [paragraph_count |-> paragraph_count,
         sentence_count |-> sentence_count,
         long_paragraphs_count |-> long_paragraphs_count,
         avg_paragraph_length |-> avg_paragraph_length,
         avg_sentence_length |-> avg_sentence_length,
         is_good_readability |->
             IsGoodReadability(avg_paragraph_length, avg_sentence_length,
                               long_paragraphs_count, paragraph_count)]

MaxBlocks == 4

\* Pieces of an article, each closed by a blank line: a short paragraph; a long
\* paragraph of three short sentences; a paragraph of 50 characters without a
\* terminator; one of 150 characters closed by a blank line that holds a space;
\* paragraphs of exactly 100 and of 101 characters; a line of markers only.
ReadabilityBlocks ==
    { Rep("ka", 10) \o <<"maru", NL, NL>>,
      Rep("ka", 40) \o <<"maru">> \o Rep("ka", 40) \o <<"!", "?">> \o Rep("ka", 40)
          \o <<"zenkan", NL, NL>>,
      Rep("ka", 50) \o <<NL, NL>>,
      Rep("ka", 150) \o <<NL, SP, NL>>,
      Rep("ka", 99) \o <<".", NL, NL>>,
      Rep("ka", 100) \o <<".", NL, NL, NL>>,
      <<HASH, HASH, SP, "-", NL, NL>> }

ReadabilityTexts == {Join(bs, <<>>) : bs \in SeqsUpTo(ReadabilityBlocks, MaxBlocks)}

InitReadability ==
    /\ text \in ReadabilityTexts
    /\ keyword = NoValue
    /\ title = NoValue
    /\ keyword_count = NoValue
    /\ total_words = NoValue
    /\ op = "readability_pending"
    /\ result = NoValue
    /\ prev = NoValue
    /\ session = NoValue
    /\ pc = NoValue

AnalyzeReadability ==
    /\ op = "readability_pending"
    /\ result' = analyze_readability(text)
    /\ op' = "readability"
    /\ UNCHANGED <<text, keyword, title, keyword_count, total_words, prev, session, pc>>

NextReadability == AnalyzeReadability

SpecReadability == InitReadability /\ [][NextReadability]_vars

-----------------------------------------------------------------------------
(* ClaudeClient.evaluate_seo_title                                         *)

\* str.isdigit(): the ASCII digits and the other decimal digits of Unicode,
\* of which "zen5" (full-width five) stands in the alphabet
Digits == {"0", "1", "2", "3", "4", "5", "6", "7", "8", "9", "zen5"}

\* click_bait_words, character by character
ClickBaitWords ==
    { <<"hou", "hoh">>,
      <<"kata_ko", "kata_tsu">>,
      <<"hi", "ketsu">>,
      <<"kan", "zen">>,
      <<"kata_ga", "kata_i", "kata_do">>,
      <<"sai", "kou">>,
      <<"kiku", "hatasu">>,
      <<"hira_o", "hira_su", "hira_su", "hira_me">>,
      <<"nin", "ki">>,
      <<"hitsu", "su">> }

InitialScore == 100
KeywordPenalty == 30
TooLongPenalty == 15
TooShortPenalty == 10
NoDigitPenalty == 5
NoClickBaitPenalty == 5
TooLongLength == 35
TooShortLength == 10

\* the four checks with the keyword compared as written, case included
title_notes_case_sensitive(t, kw) ==
    (IF ~Contains(t, kw) THEN <<"missing_keyword">> ELSE <<>>)
    \o (IF Len(t) > TooLongLength THEN <<"too_long">>
        ELSE IF Len(t) < TooShortLength THEN <<"too_short">> ELSE <<>>)
    \o (IF ~\E i \in 1..Len(t) : t[i] \in Digits THEN <<"no_digit">> ELSE <<>>)
    \o (IF ~\E w \in ClickBaitWords : Contains(t, w) THEN <<"no_click_bait">> ELSE <<>>)

\* the notes appended to comments, in the order of the four checks
TitleNotes(t, kw) ==
    (IF ~Contains(Lower(t), Lower(kw)) THEN <<"missing_keyword">> ELSE <<>>)
    \o (IF Len(t) > TooLongLength THEN <<"too_long">>
        ELSE IF Len(t) < TooShortLength THEN <<"too_short">> ELSE <<>>)
    \o (IF ~\E i \in 1..Len(t) : t[i] \in Digits THEN <<"no_digit">> ELSE <<>>)
    \o (IF ~\E w \in ClickBaitWords : Contains(t, w) THEN <<"no_click_bait">> ELSE <<>>)

NotePenalty(note) ==
    CASE note = "missing_keyword" -> KeywordPenalty
      [] note = "too_long" -> TooLongPenalty
      [] note = "too_short" -> TooShortPenalty
      [] note = "no_digit" -> NoDigitPenalty
      [] note = "no_click_bait" -> NoClickBaitPenalty

RECURSIVE Deduct(_, _)
Deduct(score, notes) ==
    IF notes = <<>> THEN score ELSE Deduct(score - NotePenalty(Head(notes)), Tail(notes))

Max(a, b) == IF a >= b THEN a ELSE b
Min(a, b) == IF a <= b THEN a ELSE b

\* score = max(0, min(100, score))
ClampScore(score) == Max(0, Min(100, score))

\* the summary chosen from the final score and the notes
TitleSummary(score, notes) ==
    IF score >= 80 THEN (IF notes = <<>> THEN "excellent" ELSE "good_with_notes")
    ELSE IF score >= 60 THEN "average"
    ELSE "needs_improvement"

\* the scorer that counts the penalties down from 0 and returns the sum as it is
evaluate_seo_title_penalty_sum(t, kw) ==
    LET notes == TitleNotes(t, kw)
        score == Deduct(0, notes)
    IN  [score |-> score,
         comment |-> [summary |-> TitleSummary(score, notes), notes |-> notes]]

evaluate_seo_title(t, kw) ==
    LET notes == TitleNotes(t, kw)
        score == ClampScore(Deduct(InitialScore, notes))
    IN  [score |-> score,
         comment |-> [summary |-> TitleSummary(score, notes), notes |-> notes]]

MaxTitlePieces == 3

\* Pieces of a title: the keyword in mixed case, a persuasive word, a digit, three
\* plain characters, and runs of 8 and of 26 plain characters.
TitlePieces ==
    { <<"S", "e", "o">>,
      <<"hou", "hoh">>,
      <<"5">>,
      <<"hira_o", "toku", "hira_na">>,
      Rep("ka", 8),
      Rep("ka", 26) }

Titles == {Join(ps, <<>>) : ps \in SeqsUpTo(TitlePieces, MaxTitlePieces)}

TitleKeywords == { <<>>, <<"s", "e", "o">>, <<"S", "E", "O">>, <<"hou", "hoh">>, <<"toku", "ka">> }

InitTitle ==
    /\ text = NoValue
    /\ keyword \in TitleKeywords
    /\ title \in Titles
    /\ keyword_count = NoValue
    /\ total_words = NoValue
    /\ op = "title_pending"
    /\ result = NoValue
    /\ prev = NoValue
    /\ session = NoValue
    /\ pc = NoValue

EvaluateTitle ==
    /\ op = "title_pending"
    /\ result' = evaluate_seo_title(title, keyword)
    /\ op' = "title"
    /\ UNCHANGED <<text, keyword, title, keyword_count, total_words, prev, session, pc>>

NextTitle == EvaluateTitle

SpecTitle == InitTitle /\ [][NextTitle]_vars

-----------------------------------------------------------------------------
(* The article request: ClaudeClient.generate_article, lines 236-252       *)

Fence == <<"backtick", "backtick", "backtick">>

MarkdownFence == Fence \o <<"m", "a", "r", "k", "d", "o", "w", "n">>

\* s.startswith(p), s.endswith(p)
StartsWith(s, p) == MatchAt(s, p, 1)
EndsWith(s, p) == Len(s) >= Len(p) /\ MatchAt(s, p, Len(s) - Len(p) + 1)

\* s[a:-b] for 0 <= a and 0 < b: the characters after the first a and before
\* the last b, none when the two overlap
Slice(s, a, b) == IF a + 1 <= Len(s) - b THEN SubSeq(s, a + 1, Len(s) - b) ELSE <<>>

\* the first slice of the handler, [10:-3]
MarkdownFenceSlice == 10

\* lines 236-248: the text of the response, trimmed and without its fence
generate_article(response_text) ==
    LET article == Strip(response_text)
    IN  IF StartsWith(article, MarkdownFence) /\ EndsWith(article, Fence)
        THEN Strip(Slice(article, MarkdownFenceSlice, 3))
        ELSE IF StartsWith(article, Fence) /\ EndsWith(article, Fence)
        THEN Strip(Slice(article, 3, 3))
        ELSE article

\* Responses of the service: pieces of an article with and without fences
ResponsePieces ==
    { MarkdownFence,
      Fence,
      <<NL>>,
      <<SP>>,
      <<HASH, SP, "T">>,
      <<"m", "d">>,
      <<"n">> }

Responses == {Join(ps, <<>>) : ps \in SeqsUpTo(ResponsePieces, MaxPieces)}

InitArticle ==
    /\ text \in Responses
    /\ keyword = NoValue
    /\ title = NoValue
    /\ keyword_count = NoValue
    /\ total_words = NoValue
    /\ op = "article_response_pending"
    /\ result = NoValue
    /\ prev = NoValue
    /\ session = NoValue
    /\ pc = NoValue

\* the request succeeded with the response text
ArticleReceived ==
    /\ op = "article_response_pending"
    /\ result' = generate_article(text)
    /\ op' = "article_response"
    /\ UNCHANGED <<text, keyword, title, keyword_count, total_words, prev, session, pc>>

\* lines 250-252: the request raised; the empty string is returned
ArticleRequestFailed ==
    /\ op = "article_response_pending"
    /\ result' = <<>>
    /\ op' = "article_request_failed"
    /\ UNCHANGED <<text, keyword, title, keyword_count, total_words, prev, session, pc>>

NextArticle == ArticleReceived \/ ArticleRequestFailed

SpecArticle == InitArticle /\ [][NextArticle]_vars

-----------------------------------------------------------------------------
(* The wizard: src/app.py                                                  *)

\* the options of the two select boxes, romanised
TARGET_AUDIENCE_OPTIONS == <<"shoshinsha", "chuukyuusha", "joukyuusha", "ippan">>
ARTICLE_LENGTH_OPTIONS == <<"mijikame", "hyoujun", "nagame">>

SessionKeys ==
    {"step", "main_keyword", "related_keywords", "target_audience",
     "article_length", "generated_titles", "title_scores", "selected_title",
     "generated_article", "seo_analysis", "api_key"}

\* the value init_session_state gives to a missing key; env_key is the
\* environment's ANTHROPIC_API_KEY, "" when it is not set; an empty list, an
\* empty dict and an empty string are all the empty sequence
DefaultValue(key, env_key) ==
    CASE key = "step" -> 1
      [] key = "target_audience" -> "ippan"
      [] key = "article_length" -> "hyoujun"
      [] key = "api_key" -> env_key
      [] OTHER -> <<>>

\* every key that is missing gets its default, the others keep their value
init_session_state(s, env_key) ==
    [key \in SessionKeys |->
        IF key \in DOMAIN s THEN s[key] ELSE DefaultValue(key, env_key)]

\* st.session_state.<key> = value
SetKey(s, key, value) ==
    [k \in DOMAIN s \cup {key} |-> IF k = key THEN value ELSE s[k]]

\* st.session_state.clear()
Cleared == <<>>

\* input.split(","): the pieces between the commas
RECURSIVE SplitCommaFrom(_, _)
SplitCommaFrom(s, from) ==
    IF \E i \in from..Len(s) : s[i] = ","
    THEN LET i == CHOOSE k \in from..Len(s) :
                      s[k] = "," /\ \A j \in from..(k - 1) : s[j] # ","
         IN  <<SubSeq(s, from, i - 1)>> \o SplitCommaFrom(s, i + 1)
    ELSE <<SubSeq(s, from, Len(s))>>

\* lines 101-105: the list of related keywords typed into the text field
ParseRelatedKeywords(related_keywords_input) ==
    IF related_keywords_input # <<>>
    THEN StripAndDropEmpty(SplitCommaFrom(related_keywords_input, 1))
    ELSE <<>>

\* a title of the response that is no string (a JSON null or number)
NonStringTitle == <<"json_null">>

IsStringTitle(t) == t # NonStringTitle

\* the three analyses the wizard stores for an article
SeoAnalysis(article, main_keyword) ==
    [keyword |-> analyze_keyword_density(article, main_keyword),
     headings |-> analyze_headings(article),
     readability |-> analyze_readability(article)]

\* Each button handler below gives the session it leaves, whether the
\* exception branch of its try block ran, and whether it ended in st.rerun().
\* st.rerun() stops the run with a script-control exception that 'except
\* Exception' does not catch, so a rerun inside a try block is no failure.
Outcome(s, raised, rerun) == [session |-> s, raised |-> raised, rerun |-> rerun]

\* 'generate titles' (lines 94-131).  form: the four inputs of the page;
\* client_raises: constructing the client raises; titles: what generate_titles
\* returns, [] when the request failed.
\* Scoring a title that is no string raises after generated_titles is stored.
GenerateTitlesClicked(s, form, client_raises, titles) ==
    LET main_keyword == form.main_keyword
        s1 == [s EXCEPT !.main_keyword = main_keyword,
                        !.related_keywords =
                            ParseRelatedKeywords(form.related_keywords_input),
                        !.target_audience = form.target_audience,
                        !.article_length = form.article_length]
    IN  IF client_raises THEN Outcome(s1, TRUE, FALSE)
        ELSE IF titles # <<>>
        THEN LET s2 == [s1 EXCEPT !.generated_titles = titles]
             IN  IF \E i \in 1..Len(titles) : ~IsStringTitle(titles[i])
                 THEN Outcome(s2, TRUE, FALSE)
                 ELSE LET title_scores ==
                              [t \in {titles[i] : i \in 1..Len(titles)} |->
                                  evaluate_seo_title(t, main_keyword)]
                      IN  Outcome([s2 EXCEPT !.title_scores = title_scores,
                                             !.step = 2], FALSE, TRUE)
        ELSE Outcome(s1, FALSE, FALSE)

\* 'back' (lines 188-191)
BackClicked(s) == Outcome([s EXCEPT !.step = 1], FALSE, TRUE)
\* 'generate article' (lines 192-230).  article: what generate_article
\* returns, "" when the request failed.
GenerateArticleClicked(s, custom_title, client_raises, article) ==
    LET s1 == [s EXCEPT !.selected_title = custom_title]
    IN  IF client_raises THEN Outcome(s1, TRUE, FALSE)
        ELSE IF article # <<>>
        THEN Outcome([s1 EXCEPT !.generated_article = article,
                                !.seo_analysis = SeoAnalysis(article, s.main_keyword),
                                !.step = 3], FALSE, TRUE)
        ELSE Outcome(s1, FALSE, FALSE)

\* 'update article' (lines 256-274); article_text is the content of the editor
UpdateArticleClicked(s, article_text) ==
    Outcome([s EXCEPT !.generated_article = article_text,
                      !.seo_analysis = SeoAnalysis(article_text, s.main_keyword)],
            FALSE, TRUE)

\* 'add table of contents' (lines 277-286)
AddTocClicked(s, article_text) ==
    LET article_with_toc == add_toc_if_needed(article_text)
    IN  IF article_with_toc # article_text
        THEN Outcome([s EXCEPT !.generated_article = article_with_toc], FALSE, TRUE)
        ELSE Outcome(s, FALSE, FALSE)

\* the reset that only puts the step back
new_article_without_clear(s) == Outcome([s EXCEPT !.step = 1], FALSE, TRUE)

\* 'new article' (lines 375-381)
NewArticleClicked(s) ==
    Outcome(SetKey(SetKey(Cleared, "api_key", s.api_key), "step", 1), FALSE, TRUE)

\* what the user and the generation service can supply
MaxTitles == 2

ApiKeys == {"", "sk"}

\* what the user fills into the form of step 1
KeywordForms ==
    { [main_keyword |-> <<"s", "e", "o">>,
       related_keywords_input |-> <<>>,
       target_audience |-> TARGET_AUDIENCE_OPTIONS[4],
       article_length |-> ARTICLE_LENGTH_OPTIONS[2]],
      [main_keyword |-> <<"ka">>,
       related_keywords_input |-> <<"a", ",", SP, ",", SP, "b">>,
       target_audience |-> TARGET_AUDIENCE_OPTIONS[1],
       article_length |-> ARTICLE_LENGTH_OPTIONS[3]] }

WizardTitles == { <<"s", "e", "o", SP, "5">>, NonStringTitle }

TitleLists == SeqsUpTo(WizardTitles, MaxTitles)

CustomTitles == { <<"T">> }

GeneratedArticles ==
    { <<HASH, SP, "T", NL, NL, HASH, HASH, SP, "a", NL, NL, "s", "e", "o", SP, "ka", ".">>,
      <<"s", "e", "o">> }

EditedArticles == { <<>>, <<HASH, HASH, SP, "b">> }

\* the editor shows the stored article until the user changes it
ArticleTexts(s) == {s.generated_article} \union EditedArticles

\* the radio groups leave the last generated title selected; the user may
\* overwrite it
OfferedTitles(s) ==
    (IF s.generated_titles = <<>> THEN {}
     ELSE {s.generated_titles[Len(s.generated_titles)]}) \union CustomTitles

WizardOps ==
    {"app_start", "enter_api_key", "generate_titles", "back", "generate_article",
     "update_article", "add_toc_clicked", "new_article"}

\* the script before its first run: an empty session
InitApp ==
    /\ text = NoValue
    /\ keyword = NoValue
    /\ title = NoValue
    /\ keyword_count = NoValue
    /\ total_words = NoValue
    /\ op = "app_start"
    /\ result = NoValue
    /\ prev = NoValue
    /\ session = Cleared
    /\ pc = "rerun"

Unused == <<text, keyword, title, keyword_count, total_words>>

\* a handler ran on the session: its outcome becomes the state
Handled(name, outcome, returned) ==
    /\ session' = outcome.session
    /\ pc' = IF outcome.rerun THEN "rerun" ELSE "idle"
    /\ op' = name
    /\ prev' = session
    /\ result' = [raised |-> outcome.raised, value |-> returned]
    /\ UNCHANGED Unused

\* main (lines 416-424): a run of the script starts with init_session_state
Rerun ==
    /\ pc = "rerun"
    /\ \E env_key \in ApiKeys : session' = init_session_state(session, env_key)
    /\ pc' = "idle"
    /\ UNCHANGED <<op, result, prev>>
    /\ UNCHANGED Unused
\* lines 64-71: at step 1 without a key the page asks for one
EnterApiKey ==
    /\ pc = "idle"
    /\ session.step = 1
    /\ session.api_key = ""
    /\ \E api_key \in ApiKeys \ {""} :
          Handled("enter_api_key",
                  Outcome([session EXCEPT !.api_key = api_key], FALSE, FALSE), <<>>)

\* the button is disabled without a main keyword or without a key
GenerateTitles ==
    /\ pc = "idle"
    /\ session.step = 1
    /\ session.api_key # ""
    /\ \E form \in KeywordForms, client_raises \in BOOLEAN, titles \in TitleLists :
          /\ client_raises => titles = <<>>
          /\ Handled("generate_titles",
                     GenerateTitlesClicked(session, form, client_raises, titles),
                     titles)

Back ==
    /\ pc = "idle"
    /\ session.step = 2
    /\ Handled("back", BackClicked(session), <<>>)

\* the button is disabled while the title field is empty
GenerateArticle ==
    /\ pc = "idle"
    /\ session.step = 2
    /\ \E custom_title \in OfferedTitles(session) \ {<<>>},
          client_raises \in BOOLEAN,
          article \in GeneratedArticles \union {<<>>} :
          /\ client_raises => article = <<>>
          /\ Handled("generate_article",
                     GenerateArticleClicked(session, custom_title, client_raises, article),
                     article)

UpdateArticle ==
    /\ pc = "idle"
    /\ session.step = 3
    /\ \E article_text \in ArticleTexts(session) :
          Handled("update_article", UpdateArticleClicked(session, article_text), <<>>)

AddTableOfContents ==
    /\ pc = "idle"
    /\ session.step = 3
    /\ \E article_text \in ArticleTexts(session) :
          Handled("add_toc_clicked", AddTocClicked(session, article_text), <<>>)

NewArticle ==
    /\ pc = "idle"
    /\ session.step = 3
    /\ Handled("new_article", NewArticleClicked(session), <<>>)

NextApp ==
    \/ Rerun
    \/ EnterApiKey
    \/ GenerateTitles
    \/ Back
    \/ GenerateArticle
    \/ UpdateArticle
    \/ AddTableOfContents
    \/ NewArticle

SpecApp == InitApp /\ [][NextApp]_vars

-----------------------------------------------------------------------------
(* All the operations together                                             *)

Init ==
    \/ InitToc
    \/ InitHeadings
    \/ InitKeyword
    \/ InitDensity
    \/ InitReadability
    \/ InitTitle
    \/ InitArticle
    \/ InitApp

Next ==
    \/ AddToc
    \/ AddTocAgain
    \/ AnalyzeHeadings
    \/ AnalyzeKeywordDensity
    \/ ComputeDensity
    \/ AnalyzeReadability
    \/ EvaluateTitle
    \/ ArticleReceived
    \/ ArticleRequestFailed
    \/ Rerun
    \/ EnterApiKey
    \/ GenerateTitles
    \/ Back
    \/ GenerateArticle
    \/ UpdateArticle
    \/ AddTableOfContents
    \/ NewArticle

Spec == Init /\ [][Next]_vars

-----------------------------------------------------------------------------
(* Vocabulary of the claims                                                *)

\* index of the first newline that is directly followed by a newline, 0 if none
FirstBlankLine(s) ==
    IF \E i \in 1..(Len(s) - 1) : s[i] = NL /\ s[i + 1] = NL
    THEN CHOOSE i \in 1..(Len(s) - 1) :
            /\ s[i] = NL /\ s[i + 1] = NL
            /\ \A j \in 1..(i - 1) : ~(s[j] = NL /\ s[j + 1] = NL)
    ELSE 0

\* s with block placed after the blank line that ends its first paragraph and
\* closed by a blank line, or, without such a blank line, appended after one
WithBlock(s, block) ==
    LET i == FirstBlankLine(s)
    IN  IF i > 0
        THEN SubSeq(s, 1, i + 1) \o block \o <<NL, NL>> \o SubSeq(s, i + 2, Len(s))
        ELSE s \o <<NL, NL>> \o block

\* a line that starts at column 0 with exactly level '#' and then a space
IsHeadingLine(line, level) ==
    /\ Len(line) >= level + 1
    /\ \A i \in 1..level : line[i] = HASH
    /\ line[level + 1] = SP

\* number of the lines that are heading lines of the level
HeadingLines(lines, level) ==
    Cardinality({i \in 1..Len(lines) : IsHeadingLine(lines[i], level)})

\* the text of a heading line: what follows the marker and its space, trimmed
HeadingText(line, level) == Strip(SubSeq(line, level + 2, Len(line)))

\* the TOC entry the claim describes for a heading of the level and text
ClaimedEntry(level, htext) ==
    LET shown == SelectSeq(htext, LAMBDA c : c \notin {"[", "]"})
        anchor == [i \in 1..Len(shown) |->
                      IF shown[i] = SP THEN "-" ELSE LowerChar(shown[i])]
    IN  Rep(SP, 2 * (level - 2)) \o <<"-", SP, "[">> \o shown \o <<"]", "(", HASH>>
            \o anchor \o <<")">>

\* one claimed entry per heading line of level 2 or 3, in document order
RECURSIVE ClaimedEntries(_)
ClaimedEntries(lines) ==
    IF lines = <<>> THEN <<>>
    ELSE LET l == Head(lines)
         IN  (IF IsHeadingLine(l, 2) THEN <<ClaimedEntry(2, HeadingText(l, 2))>>
              ELSE IF IsHeadingLine(l, 3) THEN <<ClaimedEntry(3, HeadingText(l, 3))>>
              ELSE <<>>) \o ClaimedEntries(Tail(lines))

\* the TOC block with the claimed entries
ClaimedToc(s) ==
    Join(<<TocMarkerSpaced, << >> >> \o ClaimedEntries(SplitLines(s)) \o << << >> >>, <<NL>>)

\* a line that holds exactly level '#', a whitespace character and at least one
\* more character
IsMarkedLine(line, level) ==
    /\ Len(line) >= level + 2
    /\ \A i \in 1..level : line[i] = HASH
    /\ IsSpace(line[level + 1])

RECURSIVE MarkedEntries(_)
MarkedEntries(lines) ==
    IF lines = <<>> THEN <<>>
    ELSE LET l == Head(lines)
         IN  (IF IsMarkedLine(l, 2) THEN <<ClaimedEntry(2, HeadingText(l, 2))>>
              ELSE IF IsMarkedLine(l, 3) THEN <<ClaimedEntry(3, HeadingText(l, 3))>>
              ELSE <<>>) \o MarkedEntries(Tail(lines))

\* the TOC block with one entry per marked line
MarkedToc(s) ==
    Join(<<TocMarkerSpaced, << >> >> \o MarkedEntries(SplitLines(s)) \o << << >> >>, <<NL>>)

\* kw occurs in t when case is ignored
OccursIgnoringCase(t, kw) ==
    \E i \in 1..(Len(t) + 1) :
        /\ i + Len(kw) - 1 <= Len(t)
        /\ \A k \in 1..Len(kw) : LowerChar(t[i + k - 1]) = LowerChar(kw[k])

HasDigit(t) == \E i \in 1..Len(t) : t[i] \in Digits

HasPersuasiveWord(t) ==
    \E w \in ClickBaitWords : \E i \in 1..Len(t) :
        i + Len(w) - 1 <= Len(t) /\ SubSeq(t, i, i + Len(w) - 1) = w

\* the sum of the deductions a title triggers
ClaimedDeductions(t, kw) ==
    (IF OccursIgnoringCase(t, kw) THEN 0 ELSE 30)
    + (IF Len(t) > 35 THEN 15 ELSE IF Len(t) < 10 THEN 10 ELSE 0)
    + (IF HasDigit(t) THEN 0 ELSE 5)
    + (IF HasPersuasiveWord(t) THEN 0 ELSE 5)

-----------------------------------------------------------------------------
(* Claims                                                                  *)

\* C1: add_toc_if_needed is idempotent: called on what a first call returned, it
\* returns that text unchanged (no second table of contents, no other change).
C1_TocIdempotent == op = "toc_again" => result = prev

\* a first call inserted a table of contents and the second call has run
C1_Witness == op = "toc_again" /\ prev # text /\ result = prev

\* C2: for the empty keyword, analyze_keyword_density returns keyword_count = 0
\* and density = 0 for every text.
C2_EmptyKeywordCountsZero ==
    (op = "keyword_density" /\ keyword = <<>>) =>
        (result.keyword_count = 0 /\ result.density = 0)

\* C3: the recommendation agrees with the returned (rounded) density: 'too low'
\* exactly when it is below 0.5, 'too high' exactly when it is above 3.0, and
\* 'appropriate' otherwise.
C3_RecommendationAgreesWithReturnedDensity ==
    op = "density" =>
        /\ (result.recommendation = "too_low") = (result.density < 50)
        /\ (result.recommendation = "too_high") = (result.density > 300)
        /\ (result.recommendation = "appropriate")
               = (result.density >= 50 /\ result.density <= 300)

\* C4: is_good_readability equals avg_paragraph_length < 120 and
\* avg_sentence_length < 50 and (paragraph_count = 0 or
\* long_paragraphs_count / paragraph_count < 0.3).
C4_GoodReadabilityFormula ==
    op = "readability" =>
        result.is_good_readability =
            (/\ MeanBelow(result.avg_paragraph_length, 120)
             /\ MeanBelow(result.avg_sentence_length, 50)
             /\ (\/ result.paragraph_count = 0
                 \/ 10 * result.long_paragraphs_count < 3 * result.paragraph_count))

\* paragraphs that pass both paragraph tests, with sentences that are too long
C4_Witness ==
    /\ op = "readability"
    /\ result.paragraph_count > 0
    /\ MeanBelow(result.avg_paragraph_length, 120)
    /\ 10 * result.long_paragraphs_count < 3 * result.paragraph_count
    /\ ~MeanBelow(result.avg_sentence_length, 50)
    /\ ~result.is_good_readability

\* a text without any paragraph, which is rated good
C4_WitnessNoParagraph ==
    /\ op = "readability"
    /\ text # <<>>
    /\ result.paragraph_count = 0
    /\ result.is_good_readability

\* a long paragraph among four, which is still rated good
C4_WitnessLongParagraph ==
    /\ op = "readability"
    /\ result.long_paragraphs_count > 0
    /\ result.is_good_readability

\* C5: the title score is 100 minus the deductions triggered: 30 for a missing
\* keyword (case ignored), 15 for more than 35 characters or else 10 for fewer
\* than 10, 5 for no digit, 5 for no persuasive word; a title of 5 characters with
\* the keyword and a persuasive word and without a digit scores 85.
C5_TitleScoreIsHundredMinusDeductions ==
    op = "title" =>
        /\ result.score = 100 - ClaimedDeductions(title, keyword)
        /\ (/\ Len(title) = 5
            /\ OccursIgnoringCase(title, keyword)
            /\ HasPersuasiveWord(title)
            /\ ~HasDigit(title)) => result.score = 85

\* the title of the example: three plain characters and a persuasive word,
\* which is the keyword
C5_Witness ==
    /\ op = "title"
    /\ title = <<"hira_o", "toku", "hira_na", "hou", "hoh">>
    /\ keyword = <<"hou", "hoh">>
    /\ result.score = 85

\* a title in mixed case that holds the keyword given in lower case
C5_WitnessCase ==
    /\ op = "title"
    /\ keyword = <<"s", "e", "o">>
    /\ Contains(title, <<"S", "e", "o">>)
    /\ Len(title) > 35
    /\ result.score = 75

\* C6: the score of every title and keyword is between 0 and 100.
C6_TitleScoreInRange == op = "title" => (result.score >= 0 /\ result.score <= 100)

\* a title that triggers all four deductions
C6_Witness ==
    /\ op = "title"
    /\ Len(result.comment.notes) = 4
    /\ result.score = 45

\* C7: a line counts toward level k exactly when it starts with exactly k '#'
\* and a space; no line counts toward two levels; the document '#### Title' has
\* h1 = h2 = h3 = 0 and h4 = 1.
C7_HeadingCountsAreExactLevel ==
    op = "headings" =>
        /\ LET lines == SplitLines(text)
           IN  /\ \A level \in 1..6 : result.counts[level] = HeadingLines(lines, level)
               /\ \A i \in 1..Len(lines) :
                     Cardinality({level \in 1..6 : IsHeadingLine(lines[i], level)}) <= 1
        /\ text = <<HASH, HASH, HASH, HASH, SP, "T", "i", "t", "l", "e">>
              => result.counts = <<0, 0, 0, 1, 0, 0>>

\* the document of the example, analysed
C7_Witness ==
    /\ op = "headings"
    /\ text = <<HASH, HASH, HASH, HASH, SP, "T", "i", "t", "l", "e">>
    /\ result.counts = <<0, 0, 0, 1, 0, 0>>

\* C8: is_good_structure holds exactly when there is one h1 and at least one h2;
\* has_h1, has_h2 and too_many_h1 are h1 > 0, h2 > 0 and h1 > 1.
C8_GoodStructureAndFlags ==
    op = "headings" =>
        /\ result.is_good_structure = (result.counts[1] = 1 /\ result.counts[2] >= 1)
        /\ result.has_h1 = (result.counts[1] > 0)
        /\ result.has_h2 = (result.counts[2] > 0)
        /\ result.too_many_h1 = (result.counts[1] > 1)

\* two h1 and an h2: every flag set and the structure not good
C8_Witness ==
    /\ op = "headings"
    /\ result.counts[1] = 2
    /\ result.counts[2] = 1
    /\ result.too_many_h1
    /\ ~result.is_good_structure

\* one h1 and an h2: the structure is good
C8_WitnessGood == op = "headings" /\ result.is_good_structure

\* C9: when a TOC is generated, the result is the input with one TOC block put in
\* and every input character kept in order: right after the first blank line,
\* before the remainder, or after the whole input when it has no blank line.
C9_TocBlockPlacement ==
    (op = "toc" /\ result # text) =>
        /\ result = WithBlock(text, Join(TocList(TocHeadings(text)), <<NL>>))
        /\ LET lines == SplitLines(result)
           IN  Cardinality({i \in 1..Len(lines) : lines[i] = TocMarkerSpaced}) = 1

\* a TOC placed between a first paragraph and a remainder
C9_Witness ==
    /\ op = "toc"
    /\ result # text
    /\ FirstBlankLine(text) > 1
    /\ FirstBlankLine(text) + 1 < Len(text)

\* a TOC appended to a text without a blank line
C9_WitnessAppended ==
    /\ op = "toc"
    /\ result # text
    /\ FirstBlankLine(text) = 0

C10_WitnessEntries ==
    /\ op = "toc"
    /\ result # text
    /\ Contains(result, <<SP, SP, "-", SP, "[", "A", SP, "b", "]", "(", HASH, "a", "-", "b", ")">>)
    /\ Contains(result, <<NL, "-", SP, "[", "a", "]", "(", HASH, "a", ")">>)

C11_WitnessOtherLevels ==
    /\ op = "toc"
    /\ text = <<HASH, SP, "T", NL, HASH, HASH, HASH, HASH, SP, "d", NL, "a">>
    /\ result = text

\* C12: a text whose cleaned form has no word (empty, whitespace only,
\* punctuation only) gives density 0 and the 'too low' recommendation for every
\* keyword, also for a keyword that occurs in the text.
C12_NoWordsGivesZeroDensity ==
    (op = "keyword_density"
       /\ (result.total_words = 0
           \/ \A i \in 1..Len(text) : text[i] \in MarkdownChars \/ ~IsWordChar(text[i])))
    => /\ result.total_words = 0
       /\ result.density = 0
       /\ result.recommendation = "too_low"

\* the keyword '!' occurs twice in the text '!!', which has no word
C12_Witness ==
    /\ op = "keyword_density"
    /\ text = <<"!", "!">>
    /\ keyword = <<"!">>
    /\ result.keyword_count = 2
    /\ result.total_words = 0
    /\ result.density = 0

\* the trimmed, non-empty paragraphs of the cleaned text
ClaimedParagraphs(s) == StripAndDropEmpty(SplitParagraphsFrom(CleanText(s), 1))

C13_WitnessExactlyHundred ==
    /\ op = "readability"
    /\ text = Rep("ka", 99) \o <<".", NL, NL>> \o Rep("ka", 100) \o <<".", NL, NL, NL>>
    /\ result.paragraph_count = 2
    /\ result.long_paragraphs_count = 1

\* C14: whenever the wizard is at step 3, the stored seo_analysis is the
\* analysis of the stored generated_article: after any sequence of 'generate
\* article', 'update article' and 'add table of contents' it equals the result
\* of the keyword, heading and readability analyzers on generated_article.
C14_AnalysisMatchesStoredArticle ==
    (op \in WizardOps /\ pc = "idle" /\ session.step = 3)
    => session.seo_analysis
         = SeoAnalysis(session.generated_article, session.main_keyword)

\* C14, the part the code keeps: after 'generate article' and 'update article'
\* the stored analysis is the analysis of the stored article.
C14_AnalysisMatchesAfterGenerateAndUpdate ==
    (op \in {"generate_article", "update_article"} /\ session.step = 3)
    => session.seo_analysis
         = SeoAnalysis(session.generated_article, session.main_keyword)

\* the results of earlier generations that a handler left as they were
ResultsKept ==
    /\ session.generated_titles = prev.generated_titles
    /\ session.title_scores = prev.title_scores
    /\ session.generated_article = prev.generated_article
    /\ session.seo_analysis = prev.seo_analysis

\* the step moved as one of the four transitions of the wizard
AllowedTransition ==
    \/ prev.step = 1 /\ session.step = 2 /\ op = "generate_titles" /\ result.value # <<>>
    \/ prev.step = 2 /\ session.step = 1 /\ op = "back"
    \/ prev.step = 2 /\ session.step = 3 /\ op = "generate_article" /\ result.value # <<>>
    \/ prev.step = 3 /\ session.step = 1 /\ op = "new_article"

\* C15: the step is always in {1,2,3} and changes only by 1->2 when title
\* generation returns a non-empty list, 2->1 on 'back', 2->3 when article
\* generation returns a non-empty article and 3->1 on 'new article'; a
\* generation that fails, raises or returns an empty result leaves the step and
\* the stored generated_titles, title_scores, generated_article and
\* seo_analysis unchanged.
C15_StepTransitionsAndFailureFrame ==
    /\ (op \in WizardOps /\ "step" \in DOMAIN session) => session.step \in {1, 2, 3}
    /\ (op \in WizardOps \ {"app_start"})
       => /\ prev.step # session.step => AllowedTransition
          /\ (op \in {"generate_titles", "generate_article"}
                 /\ (result.raised \/ result.value = <<>>))
             => session.step = prev.step /\ ResultsKept

\* C15, the part the code keeps: the step and its transitions, and the frame
\* of a generation that returns nothing or whose client cannot be built.
C15_StepTransitionsAndEmptyResultFrame ==
    /\ (op \in WizardOps /\ "step" \in DOMAIN session) => session.step \in {1, 2, 3}
    /\ (op \in WizardOps \ {"app_start"})
       => /\ prev.step # session.step => AllowedTransition
          /\ (op \in {"generate_titles", "generate_article"} /\ result.value = <<>>)
             => session.step = prev.step /\ ResultsKept
          /\ (op \in {"generate_titles", "generate_article"} /\ result.raised)
             => /\ session.step = prev.step
                /\ session.title_scores = prev.title_scores
                /\ session.generated_article = prev.generated_article
                /\ session.seo_analysis = prev.seo_analysis

\* C16: 'new article' at step 3 preserves the stored api_key, and after the
\* following init_session_state every other field holds its initial default
\* (step 1; empty main_keyword, related_keywords, generated_titles,
\* title_scores, selected_title, generated_article, seo_analysis; default
\* audience and length): no result of the previous article survives.
C16_NewArticleResetsAllButApiKey ==
    op = "new_article"
    => /\ prev.step = 3
       /\ session.api_key = prev.api_key
       /\ session.step = 1
       /\ pc = "idle"
          => /\ DOMAIN session = SessionKeys
             /\ session.main_keyword = <<>>
             /\ session.related_keywords = <<>>
             /\ session.generated_titles = <<>>
             /\ session.title_scores = <<>>
             /\ session.selected_title = <<>>
             /\ session.generated_article = <<>>
             /\ session.seo_analysis = <<>>
             /\ session.target_audience = TARGET_AUDIENCE_OPTIONS[4]
             /\ session.article_length = ARTICLE_LENGTH_OPTIONS[2]

\* the page of step 1 after a reset of a session that held a key, the second
\* form's inputs, titles, a selected title, an article and its analysis
C16_Witness ==
    /\ op = "new_article"
    /\ pc = "idle"
    /\ prev.api_key = "sk"
    /\ prev.main_keyword = <<"ka">>
    /\ prev.target_audience = TARGET_AUDIENCE_OPTIONS[1]
    /\ prev.generated_titles # <<>>
    /\ prev.selected_title # <<>>
    /\ prev.generated_article # <<>>
    /\ prev.seo_analysis # <<>>
    /\ session.api_key = "sk"
    /\ session.generated_article = <<>>

\* the response is wrapped in a fence that opens with the marker
Fenced(s, marker) ==
    /\ Len(s) >= Len(marker) + Len(Fence)
    /\ StartsWith(s, marker)
    /\ EndsWith(s, Fence)

\* the trimmed text between the opening marker and the closing fence
Between(s, marker) == Strip(Slice(s, Len(marker), Len(Fence)))

\* C17: a response wrapped in a code fence (it starts with the fence and the
\* tag 'markdown', or with the bare fence, and ends with the fence) is returned
\* as exactly the trimmed text between the opening marker and the closing
\* fence, no character of the marker or of the tag left; an unfenced response
\* is returned trimmed and otherwise unchanged.
C17_FenceRemovedExactly ==
    op = "article_response"
    => LET s == Strip(text)
       IN  IF Fenced(s, MarkdownFence) THEN result = Between(s, MarkdownFence)
           ELSE IF Fenced(s, Fence) THEN result = Between(s, Fence)
           ELSE IF StartsWith(s, Fence) /\ EndsWith(s, Fence) THEN TRUE
           ELSE result = s

\* C17, the part the code keeps: the bare fence and the unfenced response; of
\* the fence with the tag, the last character of the tag stays in the result.
C17_BareFenceAndUnfenced ==
    op = "article_response"
    => LET s == Strip(text)
       IN  IF Fenced(s, MarkdownFence)
           THEN result = Strip(<<"n">> \o Slice(s, Len(MarkdownFence), Len(Fence)))
           ELSE IF Fenced(s, Fence) THEN result = Between(s, Fence)
           ELSE IF StartsWith(s, Fence) /\ EndsWith(s, Fence) THEN TRUE
           ELSE result = s

====
